---- MODULE Spec2Model ----
(***************************************************************************)
(* Model of the eui crate (src/src/lib.rs, src/src/ser.rs): the Eui48 and  *)
(* Eui64 identifier types, their text encoder (to_string / Display /       *)
(* Serialize), their text decoder (string_to_eui behind TryFrom<&str>),    *)
(* and the integer and cross-width conversions.                            *)
(*                                                                         *)
(* Representation:                                                         *)
(*   - a byte array [u8; N] is a function 0..N-1 -> 0..255;                *)
(*   - a &str is a sequence of Unicode code points; the char index i of    *)
(*     the source is position i+1 of the sequence, and str::len() is the   *)
(*     UTF-8 byte length of the sequence;                                  *)
(*   - a u64 is four 16-bit limbs, a function 0..3 -> 0..65535 with limb 0 *)
(*     the least significant (the checker's integers are 32 bits wide).    *)
(***************************************************************************)
EXTENDS Integers, Sequences, FiniteSets, TLC

VARIABLES cur, op, arg, op0, arg0, calls

vars == <<cur, op, arg, op0, arg0, calls>>

(***************************************************************************)
(* u8 arithmetic                                                           *)
(***************************************************************************)

RECURSIVE BitsAnd(_, _)
\* a & b on naturals, bit by bit
BitsAnd(a, b) ==
    IF a = 0 \/ b = 0 THEN 0
    ELSE ((a % 2) * (b % 2)) + 2 * BitsAnd(a \div 2, b \div 2)

RECURSIVE BitsOr(_, _)
\* a | b on naturals, bit by bit
BitsOr(a, b) ==
    IF a = 0 THEN b
    ELSE IF b = 0 THEN a
    ELSE (IF (a % 2) + (b % 2) > 0 THEN 1 ELSE 0) + 2 * BitsOr(a \div 2, b \div 2)

\* a & b and a | b for four-bit a and b
NibbleAnd == [a \in 0..15 |-> [b \in 0..15 |-> BitsAnd(a, b)]]

NibbleOr == [a \in 0..15 |-> [b \in 0..15 |-> BitsOr(a, b)]]

RECURSIVE BitAnd(_, _)
\* a & b on naturals, four bits at a time
BitAnd(a, b) ==
    IF a < 16 \/ b < 16 THEN NibbleAnd[a % 16][b % 16]
    ELSE NibbleAnd[a % 16][b % 16] + 16 * BitAnd(a \div 16, b \div 16)

RECURSIVE BitOr(_, _)
\* a | b on naturals, four bits at a time
BitOr(a, b) ==
    IF a < 16 /\ b < 16 THEN NibbleOr[a][b]
    ELSE NibbleOr[a % 16][b % 16] + 16 * BitOr(a \div 16, b \div 16)

RECURSIVE Pow2(_)
Pow2(n) == IF n = 0 THEN 1 ELSE 2 * Pow2(n - 1)

\* (x as u8): truncation to the low 8 bits
AsU8(x) == x % 256

\* x >> s on a u8
U8Shr(x, s) == x \div Pow2(s)

\* x << s on a u8 (bits shifted out are lost)
U8Shl(x, s) == (x * Pow2(s)) % 256

(***************************************************************************)
(* u64 arithmetic on 16-bit limbs                                          *)
(***************************************************************************)

LimbIdx == 0..3

\* (x as u64) for a u8 x
U64FromU8(x) == [j \in LimbIdx |-> IF j = 0 THEN x ELSE 0]

\* v >> s, 0 <= s < 64
U64Shr(v, s) ==
    LET q == s \div 16
        r == s % 16
        L(j) == IF j \in LimbIdx THEN v[j] ELSE 0
    IN  [j \in LimbIdx |->
            (L(j + q) \div Pow2(r)) + ((L(j + q + 1) % Pow2(r)) * Pow2(16 - r))]

\* v << s, 0 <= s < 64 (bits shifted out are lost)
U64Shl(v, s) ==
    LET q == s \div 16
        r == s % 16
        L(j) == IF j \in LimbIdx THEN v[j] ELSE 0
    IN  [j \in LimbIdx |->
            ((L(j - q) % Pow2(16 - r)) * Pow2(r)) + (L(j - q - 1) \div Pow2(16 - r))]

\* v & m for a mask m < 2^16
U64AndSmall(v, m) == [j \in LimbIdx |-> IF j = 0 THEN BitAnd(v[0], m) ELSE 0]

\* (v as u8)
U64AsU8(v) == v[0] % 256

RECURSIVE Carry(_, _, _)
\* carry into limb j of a + b
Carry(a, b, j) ==
    IF j = 0 THEN 0 ELSE (a[j - 1] + b[j - 1] + Carry(a, b, j - 1)) \div 65536

\* a + b on u64 (the sums of the source never carry out of bit 63)
U64Add(a, b) ==
    LET x == <<a[0], a[1], a[2], a[3]>>
        y == <<b[0], b[1], b[2], b[3]>>
        av == [j \in LimbIdx |-> x[j + 1]]
        bv == [j \in LimbIdx |-> y[j + 1]]
    IN  [j \in LimbIdx |-> (av[j] + bv[j] + Carry(av, bv, j)) % 65536]

\* u64::to_be_bytes
to_be_bytes(v) ==
    [k \in 0..7 |-> (v[(7 - k) \div 2] \div Pow2(8 * ((7 - k) % 2))) % 256]

\* u64::from_be_bytes
from_be_bytes(b) == [j \in LimbIdx |-> b[6 - 2 * j] * 256 + b[7 - 2 * j]]

(***************************************************************************)
(* Values                                                                  *)
(***************************************************************************)

Eui48(b) == [tag |-> "Eui48", bytes |-> b]

Eui64(b) == [tag |-> "Eui64", bytes |-> b]

U64(v) == [tag |-> "u64", limbs |-> v]

Str(s) == [tag |-> "str", s |-> s]

Ok(x) == [tag |-> "Ok", v |-> x]

Err(e) == [tag |-> "Err", e |-> e]

\* StringToEuiError
InvalidLength(n) == [kind |-> "InvalidLength", length |-> n]

InvalidChar(c) == [kind |-> "InvalidChar", char |-> c]

InvalidSeparatorPlace == [kind |-> "InvalidSeparatorPlace"]

OnlyOneSeparatorTypeExpected == [kind |-> "OnlyOneSeparatorTypeExpected"]

\* Option
Some(x) == [some |-> TRUE, value |-> x]

None == [some |-> FALSE]

(***************************************************************************)
(* Characters and strings                                                  *)
(***************************************************************************)

\* ':' and '-'
ChColon == 58

ChHyphen == 45

\* a variant of UPPERCASE_HEX_CHARS: the lowercase table b"0123456789abcdef"
LOWERCASE_HEX_CHARS ==
    <<48, 49, 50, 51, 52, 53, 54, 55, 56, 57, 97, 98, 99, 100, 101, 102>>

\* b"0123456789ABCDEF"
UPPERCASE_HEX_CHARS ==
    <<48, 49, 50, 51, 52, 53, 54, 55, 56, 57, 65, 66, 67, 68, 69, 70>>

\* number of bytes of the UTF-8 encoding of code point c
Utf8Len(c) == IF c < 128 THEN 1 ELSE IF c < 2048 THEN 2 ELSE IF c < 65536 THEN 3 ELSE 4

RECURSIVE StrLenFrom(_, _)
\* the length in bytes of the characters of the string from position p on
StrLenFrom(s, p) == IF p > Len(s) THEN 0 ELSE Utf8Len(s[p]) + StrLenFrom(s, p + 1)

\* str::len(): the length of the string in bytes
StrLen(s) == StrLenFrom(s, 1)

(***************************************************************************)
(* Encoder: to_hex_string!, to_string, Display, Serialize                  *)
(***************************************************************************)

\* heapless Vec::push(..).expect(..): appends while below capacity, else panics
VecPush(vec, x, cap) ==
    IF vec.panicked \/ Len(vec.data) >= cap
    THEN [data |-> vec.data, panicked |-> TRUE]
    ELSE [data |-> Append(vec.data, x), panicked |-> FALSE]

\* the '-' pushed before every byte but the first
PushSeparator(vec, i, cap) == IF i # 0 THEN VecPush(vec, ChHyphen, cap) ELSE vec

\* the high hex digit of a byte
HighDigit(byte) == UPPERCASE_HEX_CHARS[U8Shr(byte, 4) + 1]

\* the low hex digit of a byte
LowDigit(byte) == UPPERCASE_HEX_CHARS[BitAnd(byte, 15) + 1]

\* one iteration of the loop of to_hex_string!
HexStringStep(vec, i, byte, cap) ==
    VecPush(VecPush(PushSeparator(vec, i, cap), HighDigit(byte), cap), LowDigit(byte), cap)

RECURSIVE HexStringLoop(_, _, _, _, _)
\* iterations i..n-1 of the loop of to_hex_string!
HexStringLoop(bytes, n, i, vec, cap) ==
    IF i = n THEN vec
    ELSE HexStringLoop(bytes, n, i + 1, HexStringStep(vec, i, bytes[i], cap), cap)

\* to_hex_string!($eui, $size)
to_hex_string(bytes, n, cap) ==
    LET vec == HexStringLoop(bytes, n, 0, [data |-> << >>, panicked |-> FALSE], cap)
    IN  IF vec.panicked THEN [tag |-> "panic"] ELSE Str(vec.data)

\* Eui48::to_string
Eui48_to_string(b) == to_hex_string(b, 6, 17)

\* Eui64::to_string
Eui64_to_string(b) == to_hex_string(b, 8, 23)

\* Display for Eui48 / Eui64
Eui48_fmt_Display(b) == Eui48_to_string(b)

Eui64_fmt_Display(b) == Eui64_to_string(b)

\* Serialize for Eui48 / Eui64: the string handed to serialize_str
Eui48_serialize(b) == Eui48_to_string(b)

Eui64_serialize(b) == Eui64_to_string(b)

(***************************************************************************)
(* Decoder: string_to_eui and TryFrom<&str>                                *)
(***************************************************************************)

\* a variant of hex_char_index: the lowercase arm leaves out the + 10
hex_char_index_no_offset(char_byte) ==
    IF char_byte >= 65 /\ char_byte <= 70 THEN Some(char_byte - 65 + 10)
    ELSE IF char_byte >= 97 /\ char_byte <= 102 THEN Some(char_byte - 97)
    ELSE IF char_byte >= 48 /\ char_byte <= 57 THEN Some(char_byte - 48)
    ELSE None

\* a variant of hex_char_index: the arm for b'A'..=b'F' is missing
hex_char_index_lower_only(char_byte) ==
    IF char_byte >= 97 /\ char_byte <= 102 THEN Some(char_byte - 97 + 10)
    ELSE IF char_byte >= 48 /\ char_byte <= 57 THEN Some(char_byte - 48)
    ELSE None

\* the match on char_byte
hex_char_index(char_byte) ==
    IF char_byte >= 65 /\ char_byte <= 70 THEN Some(char_byte - 65 + 10)
    ELSE IF char_byte >= 97 /\ char_byte <= 102 THEN Some(char_byte - 97 + 10)
    ELSE IF char_byte >= 48 /\ char_byte <= 57 THEN Some(char_byte - 48)
    ELSE None

\* c as u8
char_as_u8(c) == AsU8(c)

\* c == ':' || c == '-'
IsSeparator(c) == c = ChColon \/ c = ChHyphen

\* i == 0 || i == input.len() || (i + 1) % 3 != 0
BadSeparatorPlace(i, len) == i = 0 \/ i = len \/ (i + 1) % 3 # 0

\* a variant of IndexOutOfRange: the comparison is with result.len()
IndexOutOfRange_off_by_one(index, n) == index > n

\* index > result.len() - 1
IndexOutOfRange(index, n) == index > n - 1

\* the bounds check of result[index]: an index outside the slice panics
IndexInBounds(result, index) == index \in DOMAIN result

\* a variant of WriteNibble: the low nibble is assigned (=) instead of or-ed in (|=)
WriteNibble_assign(result, current_pos, value) ==
    LET index == current_pos \div 2
    IN  IF current_pos % 2 = 0
        THEN [result EXCEPT ![index] = BitAnd(U8Shl(AsU8(value), 4), 240)]
        ELSE [result EXCEPT ![index] = BitAnd(AsU8(value), 15)]

\* the write of one nibble into result[index]
WriteNibble(result, current_pos, value) ==
    LET index == current_pos \div 2
    IN  IF current_pos % 2 = 0
        THEN [result EXCEPT ![index] = BitAnd(U8Shl(AsU8(value), 4), 240)]
        ELSE [result EXCEPT ![index] = BitOr(@, BitAnd(AsU8(value), 15))]

\* a variant of OtherSeparatorSeen: the comparison t != c is never made
OtherSeparatorSeen_never(separator_type, c) == FALSE

\* the match on separator_type: TRUE when a separator of another kind was seen
OtherSeparatorSeen(separator_type, c) == separator_type.some /\ separator_type.value # c

RECURSIVE ScanFrom(_, _, _, _, _, _, _)
\* the loop of string_to_eui from char index i on, with the loop's state;
\* len is input.len() and n is result.len()
ScanFrom(input, len, n, i, separators, separator_type, result) ==
    IF i = Len(input) THEN [tag |-> "Ok", result |-> result]
    ELSE
      LET c == input[i + 1]
          hex == hex_char_index(char_as_u8(c))
          current_pos == i - separators
      IN  IF hex.some
          THEN IF IndexOutOfRange(current_pos \div 2, n)
               THEN Err(InvalidLength(len - separators))
               ELSE IF ~IndexInBounds(result, current_pos \div 2)
               THEN [tag |-> "panic"]
               ELSE ScanFrom(input, len, n, i + 1, separators, separator_type,
                             WriteNibble(result, current_pos, hex.value))
          ELSE IF IsSeparator(c)
          THEN IF BadSeparatorPlace(i, len)
               THEN Err(InvalidSeparatorPlace)
               ELSE IF OtherSeparatorSeen(separator_type, c)
               THEN Err(OnlyOneSeparatorTypeExpected)
               ELSE ScanFrom(input, len, n, i + 1, separators + 1, Some(c), result)
          ELSE Err(InvalidChar(c))

\* string_to_eui(input, &mut result) with result = [0; n]
string_to_eui(input, n) ==
    ScanFrom(input, StrLen(input), n, 0, 0, None, [k \in 0..(n - 1) |-> 0])

\* value.len() != 12 && value.len() != 17
Eui48_bad_len(len) == len # 12 /\ len # 17

\* value.len() != 16 && value.len() != 23
Eui64_bad_len(len) == len # 16 /\ len # 23

\* a variant of Eui48_try_from: no length check before the scan
Eui48_try_from_unchecked(value) ==
    LET r == string_to_eui(value, 6)
    IN  IF r.tag = "Ok" THEN Ok(Eui48(r.result)) ELSE r

\* TryFrom<&str> for Eui48
Eui48_try_from(value) ==
    IF Eui48_bad_len(StrLen(value)) THEN Err(InvalidLength(StrLen(value)))
    ELSE LET r == string_to_eui(value, 6)
         IN  IF r.tag = "Ok" THEN Ok(Eui48(r.result)) ELSE r

\* TryFrom<&str> for Eui64
Eui64_try_from(value) ==
    IF Eui64_bad_len(StrLen(value)) THEN Err(InvalidLength(StrLen(value)))
    ELSE LET r == string_to_eui(value, 8)
         IN  IF r.tag = "Ok" THEN Ok(Eui64(r.result)) ELSE r

(***************************************************************************)
(* Integer and cross-width conversions                                     *)
(***************************************************************************)

\* ((value >> s) & 0xff) as u8
ShiftedByte(value, s) == U64AsU8(U64AndSmall(U64Shr(value, s), 255))

\* a variant of Eui48_from_u64: b2 is shifted by 24 like b3
Eui48_from_u64_shift(value) ==
    LET b1 == ShiftedByte(value, 40)
        b2 == ShiftedByte(value, 24)
        b3 == ShiftedByte(value, 24)
        b4 == ShiftedByte(value, 16)
        b5 == ShiftedByte(value, 8)
        b6 == U64AsU8(U64AndSmall(value, 255))
    IN  [k \in 0..5 |-> <<b1, b2, b3, b4, b5, b6>>[k + 1]]

\* From<u64> for Eui48
Eui48_from_u64(value) ==
    LET b1 == ShiftedByte(value, 40)
        b2 == ShiftedByte(value, 32)
        b3 == ShiftedByte(value, 24)
        b4 == ShiftedByte(value, 16)
        b5 == ShiftedByte(value, 8)
        b6 == U64AsU8(U64AndSmall(value, 255))
    IN  [k \in 0..5 |-> <<b1, b2, b3, b4, b5, b6>>[k + 1]]

\* From<u64> for Eui64
Eui64_from_u64(value) == to_be_bytes(value)

\* From<Eui48> for u64
u64_from_Eui48(data) ==
    U64Add(U64Add(U64Add(U64Add(U64Add(
        U64Shl(U64FromU8(data[0]), 40),
        U64Shl(U64FromU8(data[1]), 32)),
        U64Shl(U64FromU8(data[2]), 24)),
        U64Shl(U64FromU8(data[3]), 16)),
        U64Shl(U64FromU8(data[4]), 8)),
        U64Shl(U64FromU8(data[5]), 0))

\* From<Eui64> for u64
u64_from_Eui64(b) == from_be_bytes(b)

\* a variant of Eui64_from_Eui48: the second loop reads eui48.0[i - 3]
Eui64_from_Eui48_off_by_one(b) ==
    LET data0 == [i \in 0..7 |-> 0]
        data1 == [i \in 0..7 |-> IF i \in 0..2 THEN b[i] ELSE data0[i]]
        data2 == [i \in 0..7 |-> IF i \in 5..7 THEN b[i - 3] ELSE data1[i]]
    IN  data2

\* From<Eui48> for Eui64
Eui64_from_Eui48(b) ==
    LET data0 == [i \in 0..7 |-> 0]
        data1 == [i \in 0..7 |-> IF i \in 0..2 THEN b[i] ELSE data0[i]]
        data2 == [i \in 0..7 |-> IF i \in 5..7 THEN b[i - 2] ELSE data1[i]]
    IN  data2

(***************************************************************************)
(* UpperHex / LowerHex: the u64 of the value, written with {:X} / {:x}     *)
(***************************************************************************)

\* the character core::fmt writes for hex digit d
FmtDigit(d, upper) == IF d < 10 THEN 48 + d ELSE (IF upper THEN 65 ELSE 97) + (d - 10)

\* hex digit k (from the least significant) of a u64: (v >> 4k) & 0xf
U64Nibble(v, k) == (v[k \div 4] \div Pow2(4 * (k % 4))) % 16

\* the index of the most significant non-zero hex digit of a u64, 0 for zero
U64TopNibble(v) ==
    LET NonZero == {k \in 0..15 : U64Nibble(v, k) # 0}
    IN  IF NonZero = {} THEN 0 ELSE CHOOSE k \in NonZero : \A h \in NonZero : h <= k

\* {:X} / {:x} of a u64: its hex digits from the most significant non-zero
\* one on, a single 0 for zero; no padding
FmtHexU64(v, upper) ==
    LET limbs == <<v[0], v[1], v[2], v[3]>>
        x == [j \in LimbIdx |-> limbs[j + 1]]
        top == U64TopNibble(x)
    IN  [p \in 1..(top + 1) |-> FmtDigit(U64Nibble(x, top + 1 - p), upper)]

\* UpperHex for Eui48
Eui48_fmt_UpperHex(b) == Str(FmtHexU64(u64_from_Eui48(b), TRUE))

\* LowerHex for Eui48
Eui48_fmt_LowerHex(b) == Str(FmtHexU64(u64_from_Eui48(b), FALSE))

\* UpperHex for Eui64
Eui64_fmt_UpperHex(b) == Str(FmtHexU64(u64_from_Eui64(b), TRUE))

\* LowerHex for Eui64
Eui64_fmt_LowerHex(b) == Str(FmtHexU64(u64_from_Eui64(b), FALSE))

(***************************************************************************)
(* Inputs                                                                  *)
(***************************************************************************)

\* longest input string, in characters
MaxChars == 24

\* most characters of a rendering that an edited input replaces
MaxEdits == 1

\* most operations applied to an input, one after the other
MaxCalls == 2

\* the hex digits 0-9, a-f, A-F
HexDigits ==
    <<48, 49, 50, 51, 52, 53, 54, 55, 56, 57,
      97, 98, 99, 100, 101, 102, 65, 66, 67, 68, 69, 70>>

\* digit patterns: digit j of pattern <<a, m>> is HexDigits[(a + m * j) mod 22]
AllPatterns == (0..21) \X {1, 5, 9}

DigitOf(pat, j) == HexDigits[((pat[1] + pat[2] * j) % 22) + 1]

\* the forms of a rendering: no separator, ':' between bytes, '-' between bytes
Forms == {0, ChColon, ChHyphen}

\* the first len characters of the rendering of a digit pattern in a form
Rendering(form, pat, len) ==
    [p \in 1..len |->
        IF form = 0 THEN DigitOf(pat, p - 1)
        ELSE IF p % 3 = 0 THEN form
        ELSE DigitOf(pat, (p - 1) - ((p - 1) \div 3))]

\* a slot string: hex digits, but for every third character, which is what
\* fill says: a digit (0), ':' or '-'
SlotString(fill, len) ==
    [p \in 1..len |->
        IF p % 3 = 0 /\ fill[p \div 3] # 0 THEN fill[p \div 3] ELSE DigitOf(<<4, 9>>, p - 1)]

\* a probe string: n bytes of hex digits but for character c at position p
ProbeString(n, p, c) ==
    [Rendering(0, <<13, 5>>, n - Utf8Len(c) + 1) EXCEPT ![p] = c]

\* the renderings that edits start from: one pattern, at the accepted lengths
\* and one character short of them (an edit may put in a two-byte character)
EditBases ==
    {Rendering(f, <<4, 9>>, len) : f \in Forms, len \in {11, 12, 15, 16, 17, 22, 23}}

\* characters an edit puts in: ':', '-', '0', 'j', e-acute (U+00E9), and
\* U+0141, whose low byte is 'A'
EditChars == {58, 45, 48, 106, 233, 321}

\* characters a probe puts in: all of Latin-1, and characters above U+00FF
\* whose low bytes are '0', '9', 'A', 'F', 'a', 'f', ':', '-', 0xAC and 0x00
ProbeChars == (0..255) \cup {304, 313, 321, 326, 353, 358, 314, 301, 8364, 128512}

RECURSIVE EditLists(_, _, _)
\* the lists of at most k edits <<p, c>> at increasing positions p in lo..len
EditLists(lo, len, k) ==
    IF k = 0 THEN {<< >>}
    ELSE {<< >>} \cup
         UNION {{<<<<p, c>>>> \o rest : c \in EditChars, rest \in EditLists(p + 1, len, k - 1)} :
                    p \in lo..len}

RECURSIVE ApplyEdits(_, _)
ApplyEdits(s, es) ==
    IF es = << >> THEN s
    ELSE ApplyEdits([s EXCEPT ![Head(es)[1]] = Head(es)[2]], Tail(es))

\* input byte arrays: byte k is (a + k * m) mod 256
ByteArrays(n) == {[k \in 0..(n - 1) |-> (a + k * m) % 256] : a \in 0..255, m \in {1, 67}}

\* input integers: limb j is (257 * a + j * m) mod 65536, and the same below 2^48
U64Inputs ==
    LET Full == {[j \in LimbIdx |-> (257 * a + j * m) % 65536] :
                    a \in 0..255, m \in {1, 40503}}
    IN  Full \cup {[v EXCEPT ![3] = 0] : v \in Full}

(***************************************************************************)
(* State machine: a value and the operations applied to it                 *)
(*   cur    the current value                                              *)
(*   op     the operation that produced cur ("new": an input)              *)
(*   arg    the argument of op                                             *)
(*   op0    the operation that produced arg                                *)
(*   arg0   the argument of op0                                            *)
(*   calls  the number of operations applied so far                        *)
(***************************************************************************)

Nil == [tag |-> "none"]

\* Result::unwrap on an Ok, the value itself otherwise
Unwrapped(x) == IF x.tag = "Ok" THEN x.v ELSE x

Has(tag) == calls < MaxCalls /\ Unwrapped(cur).tag = tag

Apply(name, result) ==
    /\ cur' = result
    /\ op' = name
    /\ arg' = Unwrapped(cur)
    /\ op0' = op
    /\ arg0' = arg
    /\ calls' = calls + 1

\* the input is a prefix of a rendering, a slot string, an edited rendering,
\* a probe string, a byte array or an integer
InitialValue(v) ==
    \/ \E f \in Forms, pat \in AllPatterns, len \in 0..MaxChars :
          v = Str(Rendering(f, pat, len))
    \/ \E len \in 0..MaxChars : \E fill \in [1..(len \div 3) -> Forms] :
          v = Str(SlotString(fill, len))
    \/ \E s \in EditBases : \E es \in EditLists(1, Len(s), MaxEdits) :
          v = Str(ApplyEdits(s, es))
    \/ \E n \in {12, 16}, c \in ProbeChars : \E p \in 1..(n - Utf8Len(c) + 1) :
          v = Str(ProbeString(n, p, c))
    \/ \E b \in ByteArrays(6) : v = Eui48(b)
    \/ \E b \in ByteArrays(8) : v = Eui64(b)
    \/ \E x \in U64Inputs : v = U64(x)

Init ==
    /\ InitialValue(cur)
    /\ op = "new"
    /\ arg = Nil
    /\ op0 = "new"
    /\ arg0 = Nil
    /\ calls = 0

ToString48 == Has("Eui48") /\ Apply("Eui48::to_string", Eui48_to_string(Unwrapped(cur).bytes))

ToString64 == Has("Eui64") /\ Apply("Eui64::to_string", Eui64_to_string(Unwrapped(cur).bytes))

Display48 == Has("Eui48") /\ Apply("Eui48::fmt", Eui48_fmt_Display(Unwrapped(cur).bytes))

Display64 == Has("Eui64") /\ Apply("Eui64::fmt", Eui64_fmt_Display(Unwrapped(cur).bytes))

Serialize48 == Has("Eui48") /\ Apply("Eui48::serialize", Eui48_serialize(Unwrapped(cur).bytes))

Serialize64 == Has("Eui64") /\ Apply("Eui64::serialize", Eui64_serialize(Unwrapped(cur).bytes))

TryFrom48 == Has("str") /\ Apply("Eui48::try_from", Eui48_try_from(cur.s))

TryFrom64 == Has("str") /\ Apply("Eui64::try_from", Eui64_try_from(cur.s))

FromU64To48 == Has("u64") /\ Apply("Eui48::from(u64)", Eui48(Eui48_from_u64(cur.limbs)))

FromU64To64 == Has("u64") /\ Apply("Eui64::from(u64)", Eui64(Eui64_from_u64(cur.limbs)))

From48ToU64 == Has("Eui48") /\ Apply("u64::from(Eui48)", U64(u64_from_Eui48(Unwrapped(cur).bytes)))

From64ToU64 == Has("Eui64") /\ Apply("u64::from(Eui64)", U64(u64_from_Eui64(Unwrapped(cur).bytes)))

From48To64 == Has("Eui48") /\ Apply("Eui64::from(Eui48)", Eui64(Eui64_from_Eui48(Unwrapped(cur).bytes)))

UpperHex48 == Has("Eui48") /\ Apply("Eui48::fmt(UpperHex)", Eui48_fmt_UpperHex(Unwrapped(cur).bytes))

LowerHex48 == Has("Eui48") /\ Apply("Eui48::fmt(LowerHex)", Eui48_fmt_LowerHex(Unwrapped(cur).bytes))

UpperHex64 == Has("Eui64") /\ Apply("Eui64::fmt(UpperHex)", Eui64_fmt_UpperHex(Unwrapped(cur).bytes))

LowerHex64 == Has("Eui64") /\ Apply("Eui64::fmt(LowerHex)", Eui64_fmt_LowerHex(Unwrapped(cur).bytes))

Next ==
    \/ ToString48
    \/ ToString64
    \/ Display48
    \/ Display64
    \/ Serialize48
    \/ Serialize64
    \/ TryFrom48
    \/ TryFrom64
    \/ FromU64To48
    \/ FromU64To64
    \/ From48ToU64
    \/ From64ToU64
    \/ From48To64
    \/ UpperHex48
    \/ LowerHex48
    \/ UpperHex64
    \/ LowerHex64

Spec == Init /\ [][Next]_vars

\* the parser alone: every input string, parsed once at either width
InitText == Init /\ cur.tag = "str"

NextText ==
    \/ TryFrom48
    \/ TryFrom64

SpecText == InitText /\ [][NextText]_vars

(***************************************************************************)
(* Vocabulary of the claims, stated apart from the code's own operators    *)
(***************************************************************************)

\* the characters 0-9, A-F, a-f
HexChars == (48..57) \cup (65..70) \cup (97..102)

\* the value of a hex digit character
DigitValue(c) == IF c <= 57 THEN c - 48 ELSE IF c <= 70 THEN c - 55 ELSE c - 87

\* the uppercase hex digit character of a nibble
UpperDigit(v) == IF v < 10 THEN 48 + v ELSE 55 + v

\* the length of a string in bytes: one per character, and one more for every
\* character from U+0080, from U+0800 and from U+10000 on
ByteLength(s) ==
    Len(s) + Cardinality({p \in 1..Len(s) : s[p] >= 128})
           + Cardinality({p \in 1..Len(s) : s[p] >= 2048})
           + Cardinality({p \in 1..Len(s) : s[p] >= 65536})

\* the character at index i (from 0) of a string
CharAt(s, i) == s[i + 1]

\* exactly 2n hex digits
IsPlainForm(s, n) == Len(s) = 2 * n /\ \A i \in 0..(2 * n - 1) : CharAt(s, i) \in HexChars

\* exactly n two-digit hex groups joined by n-1 copies of the separator sep
IsSeparatedForm(s, n, sep) ==
    /\ Len(s) = 3 * n - 1
    /\ \A i \in 0..(3 * n - 2) :
          IF i % 3 = 2 THEN CharAt(s, i) = sep ELSE CharAt(s, i) \in HexChars

IsWellFormed(s, n) ==
    IsPlainForm(s, n) \/ IsSeparatedForm(s, n, 58) \/ IsSeparatedForm(s, n, 45)

\* the bytes a well-formed string denotes: group k is 16 * first + second digit
GroupBytes(s, n) ==
    LET w == IF Len(s) = 2 * n THEN 2 ELSE 3
    IN  [k \in 0..(n - 1) |->
            16 * DigitValue(CharAt(s, w * k)) + DigitValue(CharAt(s, w * k + 1))]

\* byte k (from the least significant) of a 64-bit integer
ByteOfInteger(v, k) == IF k % 2 = 0 THEN v[k \div 2] % 256 ELSE v[k \div 2] \div 256

(***************************************************************************)
(* Claims                                                                  *)
(***************************************************************************)

\* C1: text round trip. Decoding the text that to_string produced for a 6-byte
\* (8-byte) value returns Ok with the bytes of that value.
C1_TextRoundTrip ==
    /\ (op0 = "Eui48::to_string" /\ op = "Eui48::try_from") => cur = Ok(Eui48(arg0.bytes))
    /\ (op0 = "Eui64::to_string" /\ op = "Eui64::try_from") => cur = Ok(Eui64(arg0.bytes))

\* C1 witness: a value with a letter digit and a zero-free byte was encoded and decoded
C1_Witness ==
    /\ op0 = "Eui64::to_string"
    /\ op = "Eui64::try_from"
    /\ cur.tag = "Ok"
    /\ arg0.bytes[0] = 250
    /\ arg0.bytes[7] = 1

C3_WellFormedDecodes ==
    /\ (op = "Eui48::try_from" /\ IsWellFormed(arg.s, 6)) =>
          cur = Ok(Eui48(GroupBytes(arg.s, 6)))
    /\ (op = "Eui64::try_from" /\ IsWellFormed(arg.s, 8)) =>
          cur = Ok(Eui64(GroupBytes(arg.s, 8)))

\* C3 witness: a colon-separated input with a lowercase and an uppercase letter decoded
C3_Witness ==
    /\ op = "Eui48::try_from"
    /\ IsSeparatedForm(arg.s, 6, 58)
    /\ \E i \in 0..16 : CharAt(arg.s, i) \in 97..102
    /\ \E i \in 0..16 : CharAt(arg.s, i) \in 65..70
    /\ cur.tag = "Ok"

\* C4: the integer and byte views are inverse to each other, in big-endian
\* order: bytes -> integer -> bytes gives the bytes back; integer -> bytes ->
\* integer gives the integer back (for Eui48, an integer below 2^48), and
\* byte k is the k-th most significant byte of the integer.
C4_IntegerRoundTrip ==
    /\ (op0 = "u64::from(Eui48)" /\ op = "Eui48::from(u64)") => cur = Eui48(arg0.bytes)
    /\ (op0 = "u64::from(Eui64)" /\ op = "Eui64::from(u64)") => cur = Eui64(arg0.bytes)
    /\ (op0 = "Eui48::from(u64)" /\ op = "u64::from(Eui48)" /\ arg0.limbs[3] = 0) =>
          /\ cur = U64(arg0.limbs)
          /\ \A k \in 0..5 : arg.bytes[k] = ByteOfInteger(arg0.limbs, 5 - k)
    /\ (op0 = "Eui64::from(u64)" /\ op = "u64::from(Eui64)") =>
          /\ cur = U64(arg0.limbs)
          /\ \A k \in 0..7 : arg.bytes[k] = ByteOfInteger(arg0.limbs, 7 - k)

\* C4 witness: an integer below 2^48 with bits above 2^40 went to Eui48 and back
C4_Witness ==
    /\ op0 = "Eui48::from(u64)"
    /\ op = "u64::from(Eui48)"
    /\ arg0.limbs[3] = 0
    /\ arg0.limbs[2] > 255
    /\ arg0.limbs[0] > 255
    /\ cur.tag = "u64"

\* C5: Eui64::from(Eui48) maps [b0,b1,b2,b3,b4,b5] to [b0,b1,b2,0,0,b3,b4,b5];
\* it always yields a value, and the Eui48 is recovered from bytes 0-2 and
\* 5-7 of the result, so no two Eui48 values map to the same Eui64.
C5_Eui48ToEui64 ==
    op = "Eui64::from(Eui48)" =>
        /\ cur.tag = "Eui64"
        /\ DOMAIN cur.bytes = 0..7
        /\ \A i \in 0..7 : cur.bytes[i] \in 0..255
        /\ cur.bytes[0] = arg.bytes[0]
        /\ cur.bytes[1] = arg.bytes[1]
        /\ cur.bytes[2] = arg.bytes[2]
        /\ cur.bytes[3] = 0
        /\ cur.bytes[4] = 0
        /\ cur.bytes[5] = arg.bytes[3]
        /\ cur.bytes[6] = arg.bytes[4]
        /\ cur.bytes[7] = arg.bytes[5]
        /\ arg.bytes = [k \in 0..5 |-> cur.bytes[IF k < 3 THEN k ELSE k + 2]]

\* C5 witness: an Eui48 with six different non-zero bytes was mapped
C5_Witness ==
    /\ op = "Eui64::from(Eui48)"
    /\ Cardinality({arg.bytes[k] : k \in 0..5} \ {0}) = 6
    /\ cur.tag = "Eui64"

\* the separators ':' and '-'
Separators == {58, 45}

\* the indices of the separators of a string
SeparatorIndices(s) == {i \in 0..(Len(s) - 1) : CharAt(s, i) \in Separators}

\* both ':' and '-' occur
HasBothSeparators(s) == \A sep \in Separators : \E i \in SeparatorIndices(s) : CharAt(s, i) = sep

\* the byte length is one of the two accepted for n bytes
HasAcceptedLength(s, n) == ByteLength(s) \in {2 * n, 3 * n - 1}

\* the number of hex digits before index i
DigitsBefore(s, i) == Cardinality({j \in 0..(i - 1) : CharAt(s, j) \in HexChars})

\* the number of separators before index i
SeparatorsBefore(s, i) == Cardinality({j \in SeparatorIndices(s) : j < i})

\* the index of the first separator that follows a separator of the other kind
SecondKindIndex(s) ==
    CHOOSE i \in SeparatorIndices(s) :
        /\ \E j \in SeparatorIndices(s) : j < i /\ CharAt(s, j) # CharAt(s, i)
        /\ \A h \in SeparatorIndices(s) :
              (\E j \in SeparatorIndices(s) : j < h /\ CharAt(s, j) # CharAt(s, h)) => i <= h

\* the index of the hex digit that d hex digits precede
DigitIndex(s, d) ==
    CHOOSE i \in 0..(Len(s) - 1) : CharAt(s, i) \in HexChars /\ DigitsBefore(s, i) = d

\* C6: upfront length rejection. Whatever its characters, an input whose
\* length in bytes is neither 12 nor 17 (Eui48), neither 16 nor 23 (Eui64),
\* fails with InvalidLength carrying exactly that length.
C6_UpfrontLength ==
    /\ (op = "Eui48::try_from" /\ ByteLength(arg.s) \notin {12, 17}) =>
          cur = Err(InvalidLength(ByteLength(arg.s)))
    /\ (op = "Eui64::try_from" /\ ByteLength(arg.s) \notin {16, 23}) =>
          cur = Err(InvalidLength(ByteLength(arg.s)))

\* C6 witness: 17 characters, one of them a two-byte invalid character, were
\* rejected for their 18 bytes
C6_Witness ==
    /\ op = "Eui48::try_from"
    /\ Len(arg.s) = 17
    /\ \E i \in 0..16 : CharAt(arg.s, i) = 233
    /\ cur = Err(InvalidLength(18))

\* the inputs C7 is about: an accepted length, only hex digits and
\* separators of one kind, and a separator first, last or next to another
C7_Case(s, n) ==
    /\ HasAcceptedLength(s, n)
    /\ \E sep \in Separators : \A i \in 0..(Len(s) - 1) : CharAt(s, i) \in HexChars \cup {sep}
    /\ \/ 0 \in SeparatorIndices(s)
       \/ Len(s) - 1 \in SeparatorIndices(s)
       \/ \E i \in SeparatorIndices(s) : i + 1 \in SeparatorIndices(s)

\* C7: separator placement rejection. An input of an accepted length made of
\* hex digits and separators of a single kind, whose first or last character
\* is a separator or which has two adjacent separators, fails with
\* InvalidSeparatorPlace.
C7_SeparatorPlaceRejected ==
    /\ (op = "Eui48::try_from" /\ C7_Case(arg.s, 6)) => cur = Err(InvalidSeparatorPlace)
    /\ (op = "Eui64::try_from" /\ C7_Case(arg.s, 8)) => cur = Err(InvalidSeparatorPlace)

\* C8: success implies a well-formed input. When try_from returns Ok the
\* input was 2N hex digits or N two-digit groups joined by N-1 separators of
\* one kind.
C8_OkImpliesWellFormed ==
    /\ (op = "Eui48::try_from" /\ cur.tag = "Ok") => IsWellFormed(arg.s, 6)
    /\ (op = "Eui64::try_from" /\ cur.tag = "Ok") => IsWellFormed(arg.s, 8)

\* the inputs C9 is about: an accepted length, only hex digits and
\* separators, every separator at an index i with (i + 1) mod 3 = 0, and
\* both ':' and '-' among them
C9_Case(s, n) ==
    /\ HasAcceptedLength(s, n)
    /\ \A i \in 0..(Len(s) - 1) : CharAt(s, i) \in HexChars \cup Separators
    /\ \A i \in SeparatorIndices(s) : (i + 1) % 3 = 0
    /\ HasBothSeparators(s)

\* C9 as stated: such an input fails with OnlyOneSeparatorTypeExpected, and
\* no input with both separator kinds decodes.
C9_Original ==
    /\ (op = "Eui48::try_from" /\ C9_Case(arg.s, 6)) => cur = Err(OnlyOneSeparatorTypeExpected)
    /\ (op = "Eui64::try_from" /\ C9_Case(arg.s, 8)) => cur = Err(OnlyOneSeparatorTypeExpected)
    /\ (op \in {"Eui48::try_from", "Eui64::try_from"} /\ HasBothSeparators(arg.s)) =>
          cur.tag = "Err"

\* the error of an input of C9's case: OnlyOneSeparatorTypeExpected when at
\* most 2n hex digits precede the first separator of the second kind, else
\* InvalidLength with the length less the separators before hex digit 2n + 1
C9_Error(s, n) ==
    IF DigitsBefore(s, SecondKindIndex(s)) <= 2 * n
    THEN OnlyOneSeparatorTypeExpected
    ELSE InvalidLength(ByteLength(s) - SeparatorsBefore(s, DigitIndex(s, 2 * n)))

\* C9, amended: mixed separator rejection. An input of C9's case fails: with
\* OnlyOneSeparatorTypeExpected when at most 2N hex digits precede the first
\* separator of the second kind, with InvalidLength otherwise; and no input
\* with both separator kinds decodes.
C9_MixedSeparatorsRejected ==
    /\ (op = "Eui48::try_from" /\ C9_Case(arg.s, 6)) => cur = Err(C9_Error(arg.s, 6))
    /\ (op = "Eui64::try_from" /\ C9_Case(arg.s, 8)) => cur = Err(C9_Error(arg.s, 8))
    /\ (op \in {"Eui48::try_from", "Eui64::try_from"} /\ HasBothSeparators(arg.s)) =>
          cur.tag = "Err"

\* C9 witness: 23 characters with a separator after every byte, ':' and '-'
\* among them, were rejected for the second kind
C9_Witness ==
    /\ op = "Eui64::try_from"
    /\ C9_Case(arg.s, 8)
    /\ Len(arg.s) = 23
    /\ Cardinality(SeparatorIndices(arg.s)) = 7
    /\ cur = Err(OnlyOneSeparatorTypeExpected)

\* the inputs C10 is about: the length passes the check, and character c at
\* index p < 2n, after hex digits only, is no hex digit and no separator
C10_Case(s, n, p) ==
    /\ HasAcceptedLength(s, n)
    /\ p < 2 * n
    /\ \A j \in 0..(p - 1) : CharAt(s, j) \in HexChars
    /\ CharAt(s, p) \notin HexChars \cup Separators

\* C10: invalid character reporting. Such an input fails with InvalidChar
\* carrying exactly the character at p, whatever its code point.
C10_InvalidCharReported ==
    /\ op = "Eui48::try_from" =>
          \A p \in 0..(Len(arg.s) - 1) :
              C10_Case(arg.s, 6, p) => cur = Err(InvalidChar(CharAt(arg.s, p)))
    /\ op = "Eui64::try_from" =>
          \A p \in 0..(Len(arg.s) - 1) :
              C10_Case(arg.s, 8, p) => cur = Err(InvalidChar(CharAt(arg.s, p)))

\* a string with every letter A-F replaced by a-f
LowerCased(s) == [p \in 1..Len(s) |-> IF s[p] \in 65..70 THEN s[p] + 32 ELSE s[p]]

\* a string with every letter a-f replaced by A-F
UpperCased(s) == [p \in 1..Len(s) |-> IF s[p] \in 97..102 THEN s[p] - 32 ELSE s[p]]

\* a string with the case of every letter a-f, A-F swapped
CaseSwapped(s) ==
    [p \in 1..Len(s) |->
        IF s[p] \in 65..70 THEN s[p] + 32 ELSE IF s[p] \in 97..102 THEN s[p] - 32 ELSE s[p]]

\* C11: case insensitivity. The result of try_from on an input is the result
\* on the same input with its letters a-f, A-F all lowercased, all uppercased
\* or all swapped: the same bytes, or the same error with the same payload.
\* Two inputs that differ only in the case of such letters have the same
\* lowercased form, hence the same result.
C11_CaseInsensitive ==
    /\ op = "Eui48::try_from" =>
          \A v \in {LowerCased(arg.s), UpperCased(arg.s), CaseSwapped(arg.s)} :
              cur = Eui48_try_from(v)
    /\ op = "Eui64::try_from" =>
          \A v \in {LowerCased(arg.s), UpperCased(arg.s), CaseSwapped(arg.s)} :
              cur = Eui64_try_from(v)

\* C11 witness: an input with a lowercase and an uppercase letter was
\* rejected with a payload (an invalid character after the letters)
C11_Witness ==
    /\ op = "Eui64::try_from"
    /\ cur.tag = "Err"
    /\ cur.e.kind = "InvalidChar"
    /\ \E i \in 0..(Len(arg.s) - 1) :
          /\ CharAt(arg.s, i) = cur.e.char
          /\ \E j \in 0..(i - 1) : CharAt(arg.s, j) \in 97..102
          /\ \E j \in 0..(i - 1) : CharAt(arg.s, j) \in 65..70

\* the lowercase hex digit character of a nibble
LowerDigit(v) == IF v < 10 THEN 48 + v ELSE 87 + v

\* the 2n hex digits of n bytes in order, uppercase or lowercase
PlainDigits(b, n, upper) ==
    [p \in 1..(2 * n) |->
        LET nib == IF p % 2 = 1 THEN b[(p - 1) \div 2] \div 16 ELSE b[(p - 1) \div 2] % 16
        IN  IF upper THEN UpperDigit(nib) ELSE LowerDigit(nib)]

\* C12: separator-free hex rendering. {:X} of an Eui48 (Eui64) is the 12
\* (16) uppercase hex digits of its bytes in order, {:x} the same digits in
\* lowercase, and try_from of either rendering returns the original value.
C12_HexRendering ==
    /\ op = "Eui48::fmt(UpperHex)" => cur = Str(PlainDigits(arg.bytes, 6, TRUE))
    /\ op = "Eui48::fmt(LowerHex)" => cur = Str(PlainDigits(arg.bytes, 6, FALSE))
    /\ op = "Eui64::fmt(UpperHex)" => cur = Str(PlainDigits(arg.bytes, 8, TRUE))
    /\ op = "Eui64::fmt(LowerHex)" => cur = Str(PlainDigits(arg.bytes, 8, FALSE))
    /\ (op0 \in {"Eui48::fmt(UpperHex)", "Eui48::fmt(LowerHex)"} /\ op = "Eui48::try_from") =>
          cur = Ok(Eui48(arg0.bytes))
    /\ (op0 \in {"Eui64::fmt(UpperHex)", "Eui64::fmt(LowerHex)"} /\ op = "Eui64::try_from") =>
          cur = Ok(Eui64(arg0.bytes))

\* the characters before index i are hex digits and separators of one kind,
\* each separator at an index j > 0 with (j + 1) mod 3 = 0: the scan reaches
\* index i without a separator or character error
CleanPrefix(s, i) ==
    \A j \in 0..(i - 1) :
        \/ CharAt(s, j) \in HexChars
        \/ /\ CharAt(s, j) \in Separators
           /\ j # 0
           /\ (j + 1) % 3 = 0
           /\ \A h \in SeparatorIndices(s) : h < j => CharAt(s, h) = CharAt(s, j)

\* the logical position of index i: the index less the separators before it
LogicalPosition(s, i) == i - SeparatorsBefore(s, i)

\* the inputs C13 is about: 3n-1 bytes, and the scan reaches at index i,
\* with no earlier error, a hex digit whose logical position is 2n or more
C13_Case(s, n, i) ==
    /\ ByteLength(s) = 3 * n - 1
    /\ CharAt(s, i) \in HexChars
    /\ LogicalPosition(s, i) >= 2 * n
    /\ CleanPrefix(s, i)
    /\ \A j \in 0..(i - 1) : CharAt(s, j) \in HexChars => LogicalPosition(s, j) < 2 * n

\* C13 for one width
C13_Holds(s, n) ==
    /\ ByteLength(s) = 3 * n - 1 =>
          \A i \in (2 * n)..(Len(s) - 1) :
              C13_Case(s, n, i) =>
                  cur = Err(InvalidLength(ByteLength(s) - SeparatorsBefore(s, i)))
    /\ (Len(s) = 3 * n - 1 /\ \A i \in 0..(3 * n - 2) : CharAt(s, i) \in HexChars) =>
          cur = Err(InvalidLength(3 * n - 1))
    /\ cur.tag # "panic"
    /\ cur.tag = "Ok" => DOMAIN cur.v.bytes = 0..(n - 1)

\* C13: mid-scan length error. An input of 3N-1 bytes whose scan reaches,
\* with no earlier error, a hex digit at logical position 2N or more fails
\* with InvalidLength carrying the input length less the separators seen so
\* far; 3N-1 hex digits fail with InvalidLength{3N-1}; and no write lands
\* outside the N-byte buffer.
C13_MidScanLength ==
    /\ op = "Eui48::try_from" => C13_Holds(arg.s, 6)
    /\ op = "Eui64::try_from" => C13_Holds(arg.s, 8)

\* C13 witness: 23 characters with two separators before the 17th hex digit
\* were rejected with length 21
C13_Witness ==
    /\ op = "Eui64::try_from"
    /\ \E i \in 0..(Len(arg.s) - 1) :
          C13_Case(arg.s, 8, i) /\ SeparatorsBefore(arg.s, i) = 2
    /\ cur = Err(InvalidLength(21))

====
